---------------------------- MODULE Spec2Model ----------------------------
(***************************************************************************)
(* A model of rsysfetch: the driver (main.rs), the application state       *)
(* (app.rs), the snapshot collector and its formatting helpers             *)
(* (system_info.rs) and the layout/render engine (ui.rs).                  *)
(*                                                                         *)
(* A u64 does not fit the integers of the model checker, so a u64 is kept  *)
(* as a sequence of 15-bit limbs, least significant first, with no leading *)
(* zero limb (0 is << >>).  An f64 is kept as [m, e], the value m * 2^e    *)
(* with m below 2^53; every f64 operation rounds to nearest, ties to even, *)
(* as the hardware does.                                                   *)
(***************************************************************************)
EXTENDS Integers, Sequences, FiniteSets, TLC

(***************************************************************************)
(* Unsigned integers of any width, as limb sequences.                      *)
(***************************************************************************)
Base == 2 ^ 15
LimbBits == CHOOSE n \in 1..30 : 2 ^ n = Base

RECURSIVE Nrm(_)
Nrm(a) == IF a = << >> THEN << >>
          ELSE IF a[Len(a)] = 0 THEN Nrm(SubSeq(a, 1, Len(a) - 1))
          ELSE a

RECURSIVE FromNat(_)
FromNat(n) == IF n = 0 THEN << >> ELSE << n % Base >> \o FromNat(n \div Base)

RECURSIVE ToNat(_)
ToNat(a) == IF a = << >> THEN 0 ELSE a[1] + Base * ToNat(Tail(a))

LimbAt(a, i) == IF i <= Len(a) THEN a[i] ELSE 0

\* The number of bits of a: 0 for 0, n for 2^(n-1) <= a < 2^n
TopBits(x) == CHOOSE n \in 1..LimbBits : 2 ^ (n - 1) <= x /\ x < 2 ^ n

BitLenOf(b) == IF b = << >> THEN 0 ELSE LimbBits * (Len(b) - 1) + TopBits(b[Len(b)])

BitLen(a) == BitLenOf(Nrm(a))

RECURSIVE GeqFrom(_, _, _)
GeqFrom(a, b, i) == IF i = 0 THEN TRUE
                    ELSE IF a[i] # b[i] THEN a[i] > b[i]
                    ELSE GeqFrom(a, b, i - 1)

\* a >= b, both without leading zero limbs
Geq(a, b) == IF Len(a) # Len(b) THEN Len(a) > Len(b) ELSE GeqFrom(a, b, Len(a))

RECURSIVE AddFrom(_, _, _, _)
AddFrom(a, b, i, c) ==
    IF i > Len(a) /\ i > Len(b)
    THEN (IF c = 0 THEN << >> ELSE << c >>)
    ELSE LET s == LimbAt(a, i) + LimbAt(b, i) + c
         IN  << s % Base >> \o AddFrom(a, b, i + 1, s \div Base)

AddB(a, b) == Nrm(AddFrom(a, b, 1, 0))

RECURSIVE SubFrom(_, _, _, _)
SubFrom(a, b, i, c) ==
    IF i > Len(a) THEN << >>
    ELSE LET s == a[i] - LimbAt(b, i) - c
         IN  << s % Base >> \o SubFrom(a, b, i + 1, IF s < 0 THEN 1 ELSE 0)

\* a - b, for a >= b
SubB(a, b) == Nrm(SubFrom(a, b, 1, 0))

RECURSIVE MulSmallFrom(_, _, _, _)
MulSmallFrom(a, k, i, c) ==
    IF i > Len(a) THEN (IF c = 0 THEN << >> ELSE << c >>)
    ELSE LET s == a[i] * k + c
         IN  << s % Base >> \o MulSmallFrom(a, k, i + 1, s \div Base)

\* a * k, for k < Base
MulSmall(a, k) == Nrm(MulSmallFrom(a, k, 1, 0))

\* a * Base^n, for a without leading zero limbs
ShlLimbs(a, n) == IF a = << >> THEN << >> ELSE [i \in 1..n |-> 0] \o a

RECURSIVE MulFrom(_, _, _)
MulFrom(a, b, i) ==
    IF i > Len(b) THEN << >>
    ELSE AddB(MulSmall(a, b[i]), ShlLimbs(MulFrom(a, b, i + 1), 1))

MulB(a, b) == MulFrom(Nrm(a), b, 1)

\* Short division by k < Base, from the top limb: [q, r] with a = q * k + r
RECURSIVE DivSmallFrom(_, _, _, _, _)
DivSmallFrom(a, k, i, q, r) ==
    IF i = 0 THEN [q |-> Nrm(q), r |-> r]
    ELSE LET t == r * Base + a[i]
         IN  DivSmallFrom(a, k, i - 1, << t \div k >> \o q, t % k)

DivSmall(a, k) == DivSmallFrom(a, k, Len(a), << >>, 0)

\* a * 2^k
Shl(a, k) == ShlLimbs(MulSmall(a, 2 ^ (k % LimbBits)), k \div LimbBits)

\* a \div 2^k
Shr(a, k) ==
    IF k \div LimbBits >= Len(a) THEN << >>
    ELSE DivSmall(SubSeq(a, (k \div LimbBits) + 1, Len(a)), 2 ^ (k % LimbBits)).q

\* a % 2^k
LowBits(a, k) ==
    LET n == k \div LimbBits
    IN  IF n >= Len(a) THEN Nrm(a)
        ELSE Nrm(SubSeq(a, 1, n) \o << a[n + 1] % (2 ^ (k % LimbBits)) >>)

IsOdd(a) == a # << >> /\ a[1] % 2 = 1

\* The largest digit t < Base with d * t <= n, for n < d * Base: the bits of
\* t are decided from the top.
RECURSIVE QDigit(_, _, _, _)
QDigit(n, d, k, t) ==
    IF k < 0 THEN t
    ELSE IF Geq(n, MulSmall(d, t + 2 ^ k))
         THEN QDigit(n, d, k - 1, t + 2 ^ k)
         ELSE QDigit(n, d, k - 1, t)

\* The quotient digit t of r2 by d and what is left of r2: [t, r]
DigitRem(r2, d, t) == [t |-> t, r |-> IF t = 0 THEN r2 ELSE SubB(r2, MulSmall(d, t))]

DigitOf(r2, d) == DigitRem(r2, d, QDigit(r2, d, LimbBits - 1, 0))

\* Long division, one limb of n at a time from the top: [q, r] with
\* n = q * d + r and r < d.
RECURSIVE DivFrom(_, _, _, _, _)
RECURSIVE DivPut(_, _, _, _, _)
DivFrom(n, d, i, q, r) ==
    IF i = 0 THEN [q |-> Nrm(q), r |-> r]
    ELSE DivPut(n, d, i, q, DigitOf(Nrm(<< n[i] >> \o r), d))

DivPut(n, d, i, q, x) == DivFrom(n, d, i - 1, << x.t >> \o q, x.r)

DivSmallLimbs(s) == [q |-> s.q, r |-> FromNat(s.r)]

\* [q, r] with n = q * d + r and r < d, for d > 0 without leading zero limbs
DivMod(n, d) ==
    IF Len(d) = 1 THEN DivSmallLimbs(DivSmall(n, d[1]))
    ELSE DivFrom(n, d, Len(n), << >>, << >>)

(***************************************************************************)
(* f64 arithmetic.  Mantissa is the precision of an f64 in bits.           *)
(***************************************************************************)
Mantissa == 53

\* q + f to the nearest integer, ties to even, for a fraction f that the
\* bits `low` give, out of twice `half`, and that is a little more than
\* those bits say if sticky.
Nearest(q, low, half, sticky) ==
    IF (IF low = half THEN sticky \/ IsOdd(q) ELSE Geq(low, half))
    THEN AddB(q, << 1 >>)
    ELSE q

RoundDrop(q, sticky, drop) ==
    IF drop <= 0 THEN [m |-> Nrm(q), e |-> 0]
    ELSE [m |-> Nearest(Shr(q, drop), LowBits(q, drop), Shl(<< 1 >>, drop - 1), sticky),
          e |-> drop]

\* The f64 nearest to q + f (ties to even), where f is a fraction below 1
\* that is not 0 exactly if sticky.  With a sticky fraction q has more bits
\* than the mantissa holds.
RoundBits(q, sticky) == RoundDrop(q, sticky, BitLen(q) - Mantissa)

\* a * 2^k
FScale(a, k) == [m |-> a.m, e |-> a.e + k]

RoundRem(dm) == RoundBits(dm.q, dm.r # << >>)

RoundAt(n, d, s) ==
    FScale(RoundRem(DivMod(IF s >= 0 THEN Shl(n, s) ELSE n,
                           IF s >= 0 THEN d ELSE Shl(d, 0 - s))),
           0 - s)

\* The f64 nearest to n / d (ties to even), for n > 0 and d > 0 without
\* leading zero limbs.  The quotient is taken with one or two bits more
\* than the mantissa holds, and those bits and the remainder decide the
\* rounding.
RoundF(n, d) == RoundAt(n, d, (Mantissa + 1) - (BitLenOf(n) - BitLenOf(d)))

FZero == [m |-> << >>, e |-> 0]

\* `x as f64` for a u64 x
U64ToF64(u) == RoundBits(u, FALSE)

\* a / b for b # 0
FDiv(a, b) == IF a.m = << >> THEN FZero ELSE FScale(RoundF(a.m, b.m), a.e - b.e)

\* a * b
FMul(a, b) ==
    IF a.m = << >> \/ b.m = << >> THEN FZero
    ELSE FScale(RoundBits(MulB(a.m, b.m), FALSE), a.e + b.e)

\* a >= 2^k
FGeqPow2(a, k) == a.m # << >> /\ BitLenOf(a.m) + a.e >= k + 1

\* The integer part of a (a >= 0), as limbs.
FTrunc(a) == IF a.e >= 0 THEN Shl(a.m, a.e) ELSE Shr(a.m, 0 - a.e)

\* a rounded to the nearest integer, ties to even, as limbs.
FRoundEven(a) ==
    IF a.e >= 0 THEN Shl(a.m, a.e)
    ELSE Nearest(Shr(a.m, 0 - a.e), LowBits(a.m, 0 - a.e), Shl(<< 1 >>, (0 - a.e) - 1),
                 FALSE)

\* The f64 of a small non-negative integer literal such as 1024.0
FLit(n) == [m |-> FromNat(n), e |-> 0]

SaturateU16(t) == IF BitLenOf(t) > 16 THEN 65535 ELSE ToNat(t)

\* `x as u16` for an f64 x >= 0: truncation, saturating at u16::MAX
F64ToU16(a) == SaturateU16(FTrunc(a))

OneDecimal(tenths) == ToString(tenths \div 10) \o "." \o ToString(tenths % 10)

\* format!("{:.1}", x): x rounded to one decimal, ties to even, with the
\* tenths computed on the exact binary value of x.
FormatOneDecimal(a) == OneDecimal(ToNat(FRoundEven([m |-> MulSmall(a.m, 10), e |-> a.e])))

(***************************************************************************)
(* system_info.rs: the formatting helpers.                                 *)
(***************************************************************************)
\* format_uptime with the minutes rounded to the nearest
format_uptime_rounded(seconds) ==
    LET days    == seconds \div 86400
        hours   == (seconds % 86400) \div 3600
        minutes == ((seconds % 3600) + 30) \div 60
    IN  IF days > 0
        THEN ToString(days) \o "d " \o ToString(hours) \o "h "
                 \o ToString(minutes) \o "m"
        ELSE IF hours > 0
        THEN ToString(hours) \o "h " \o ToString(minutes) \o "m"
        ELSE ToString(minutes) \o "m"

format_uptime(seconds) ==
    LET days    == seconds \div 86400
        hours   == (seconds % 86400) \div 3600
        minutes == (seconds % 3600) \div 60
    IN  IF days > 0
        THEN ToString(days) \o "d " \o ToString(hours) \o "h "
                 \o ToString(minutes) \o "m"
        ELSE IF hours > 0
        THEN ToString(hours) \o "h " \o ToString(minutes) \o "m"
        ELSE ToString(minutes) \o "m"

UNITS == << "B", "KB", "MB", "GB", "TB" >>

\* ScaleBytes dividing only from 2048 on
RECURSIVE ScaleBytesFrom2048(_, _)
ScaleBytesFrom2048(size, unit_index) ==
    IF FGeqPow2(size, 11) /\ unit_index < Len(UNITS) - 1
    THEN ScaleBytesFrom2048(FDiv(size, FLit(1024)), unit_index + 1)
    ELSE [size |-> size, unit_index |-> unit_index]

\* The while loop of format_bytes: [size, unit_index] when it ends.
RECURSIVE ScaleBytes(_, _)
ScaleBytes(size, unit_index) ==
    IF FGeqPow2(size, 10) /\ unit_index < Len(UNITS) - 1
    THEN ScaleBytes(FDiv(size, FLit(1024)), unit_index + 1)
    ELSE [size |-> size, unit_index |-> unit_index]

\* The two format! calls of format_bytes, on what the loop left.
FormatSize(r) ==
    IF r.unit_index = 0
    THEN ToString(ToNat(FTrunc(r.size))) \o " " \o UNITS[r.unit_index + 1]
    ELSE FormatOneDecimal(r.size) \o " " \o UNITS[r.unit_index + 1]

format_bytes(bytes) == FormatSize(ScaleBytes(U64ToF64(bytes), 0))

(***************************************************************************)
(* ui.rs: the usage percentage of the memory and the disk panel.           *)
(***************************************************************************)
usage_percent(used, total) ==
    IF Nrm(total) # << >>
    THEN F64ToU16(FMul(FDiv(U64ToF64(used), U64ToF64(total)), FLit(100)))
    ELSE 0

(***************************************************************************)
(* Text as the GPU parsers see it: a sequence of one-character strings.    *)
(***************************************************************************)
RECURSIVE Join(_)
Join(cs) == IF cs = << >> THEN "" ELSE Head(cs) \o Join(Tail(cs))

StartsWith(s, p) == Len(s) >= Len(p) /\ SubSeq(s, 1, Len(p)) = p

EndsWith(s, p) == Len(s) >= Len(p) /\ SubSeq(s, Len(s) - Len(p) + 1, Len(s)) = p

\* str::trim_start_matches: the prefix p removed as often as it is there
RECURSIVE TrimStartMatches(_, _)
TrimStartMatches(s, p) ==
    IF p # << >> /\ StartsWith(s, p)
    THEN TrimStartMatches(SubSeq(s, Len(p) + 1, Len(s)), p)
    ELSE s

\* str::trim_end_matches: the suffix p removed as often as it is there
RECURSIVE TrimEndMatches(_, _)
TrimEndMatches(s, p) ==
    IF p # << >> /\ EndsWith(s, p)
    THEN TrimEndMatches(SubSeq(s, 1, Len(s) - Len(p)), p)
    ELSE s

WhiteSpace == {" ", "\t", "\r", "\n"}

\* str::trim
RECURSIVE Trim(_)
Trim(s) ==
    IF s = << >> THEN s
    ELSE IF s[1] \in WhiteSpace THEN Trim(Tail(s))
    ELSE IF s[Len(s)] \in WhiteSpace THEN Trim(SubSeq(s, 1, Len(s) - 1))
    ELSE s

\* str::find: the 0-based index of the first occurrence of p in s, or -1
Find(s, p) ==
    LET at == {i \in 0..(Len(s) - Len(p)) : SubSeq(s, i + 1, i + Len(p)) = p}
    IN  IF at = {} THEN -1 ELSE CHOOSE i \in at : \A j \in at : i <= j

Contains(s, p) == Find(s, p) >= 0

\* str::split on one character: the parts between the separators
RECURSIVE Split(_, _)
Split(s, c) ==
    LET i == Find(s, << c >>)
    IN  IF i < 0 THEN << s >>
        ELSE << SubSeq(s, 1, i) >> \o Split(SubSeq(s, i + 2, Len(s)), c)

\* The lines of an output joined again, as the whole output string
RECURSIVE Unlines(_)
Unlines(ls) == IF ls = << >> THEN << >> ELSE Head(ls) \o << "\n" >> \o Unlines(Tail(ls))

(***************************************************************************)
(* system_info.rs: the GPU probes.  A probe is what Command::output gave:  *)
(* [launched, stdout], stdout as the lines str::lines yields.              *)
(***************************************************************************)
NamePrefix == << "N", "a", "m", "e", "=" >>

RECURSIVE WindowsScan(_)
WindowsScan(ls) ==
    IF ls = << >> THEN "Unknown GPU"
    ELSE LET line == Head(ls)
         IN  IF StartsWith(line, NamePrefix) /\ TrimEndMatches(line, NamePrefix) # << >>
             THEN Join(Trim(TrimStartMatches(line, NamePrefix)))
             ELSE WindowsScan(Tail(ls))

get_gpu_info_windows(probe) ==
    IF probe.launched THEN WindowsScan(probe.stdout) ELSE "Unknown GPU"

VgaMarker == << "V", "G", "A", " ", "c", "o", "m", "p", "a", "t", "i", "b", "l", "e",
                " ", "c", "o", "n", "t", "r", "o", "l", "l", "e", "r" >>
Marker3D == << "3", "D", " ", "c", "o", "n", "t", "r", "o", "l", "l", "e", "r" >>

RECURSIVE LinuxScan(_)
LinuxScan(ls) ==
    IF ls = << >> THEN "Unknown GPU"
    ELSE LET line  == Head(ls)
             parts == Split(line, "\"")
         IN  IF (Contains(line, VgaMarker) \/ Contains(line, Marker3D)) /\ Len(parts) >= 6
             THEN Join(parts[4]) \o " " \o Join(parts[6])
             ELSE LinuxScan(Tail(ls))

get_gpu_info_linux(probe) ==
    IF probe.launched THEN LinuxScan(probe.stdout) ELSE "Unknown GPU"

NameKey == << "\"", "_", "n", "a", "m", "e", "\"", " ", ":", " ", "\"" >>

get_gpu_info_macos(probe) ==
    IF probe.launched
    THEN LET output_str == Unlines(probe.stdout)
             found      == Find(output_str, NameKey)
             start      == found + 11
             rest       == SubSeq(output_str, start + 1, Len(output_str))
             end        == Find(rest, << "\"" >>)
         IN  IF found >= 0 /\ end >= 0 THEN Join(SubSeq(rest, 1, end))
             ELSE "Unknown GPU"
    ELSE "Unknown GPU"

\* cfg!(target_os = ...) is decided by the build: os is the build's target.
get_gpu_info(os, probe) ==
    IF os = "windows" THEN get_gpu_info_windows(probe)
    ELSE IF os = "linux" THEN get_gpu_info_linux(probe)
    ELSE IF os = "macos" THEN get_gpu_info_macos(probe)
    ELSE "Unknown GPU"

(***************************************************************************)
(* system_info.rs: the collector.  host is what the host answers to the    *)
(* queries of collect: an Option or Result is [some, v].                   *)
(***************************************************************************)
None == [some |-> FALSE, v |-> ""]
Some(x) == [some |-> TRUE, v |-> x]

\* Option::unwrap_or_else / Result::unwrap_or_else with a literal
UnwrapOr(o, default) == IF o.some THEN o.v ELSE default

\* Result::or_else
OrElse(r, other) == IF r.some THEN r ELSE other

get_local_ip(host) == UnwrapOr(host.local_ip, "Unknown IP")

\* collect giving up when the host does not tell its name
collect_strict(os, host) ==
    [ok |-> host.host_name.some,
     val |->
       [os_name        |-> UnwrapOr(host.name, "Unknown"),
        os_version     |-> UnwrapOr(host.os_version, "Unknown"),
        kernel_version |-> UnwrapOr(host.kernel_version, "Unknown"),
        hostname       |-> UnwrapOr(host.host_name, "Unknown"),
        username       |-> UnwrapOr(OrElse(host.USER, host.USERNAME), "Unknown"),
        uptime         |-> format_uptime(host.uptime),
        cpu_model      |-> IF host.cpus # << >> THEN Head(host.cpus) ELSE "Unknown",
        cpu_cores      |-> Len(host.cpus),
        memory_total   |-> host.total_memory,
        memory_used    |-> host.used_memory,
        disk_total     |-> << >>,
        disk_used      |-> << >>,
        gpu_info       |-> get_gpu_info(os, host.gpu),
        local_ip       |-> get_local_ip(host)]]

\* SystemInfo::collect: the AppResult it returns, always Ok here.
collect(os, host) ==
    [ok |-> TRUE,
     val |->
       [os_name        |-> UnwrapOr(host.name, "Unknown"),
        os_version     |-> UnwrapOr(host.os_version, "Unknown"),
        kernel_version |-> UnwrapOr(host.kernel_version, "Unknown"),
        hostname       |-> UnwrapOr(host.host_name, "Unknown"),
        username       |-> UnwrapOr(OrElse(host.USER, host.USERNAME), "Unknown"),
        uptime         |-> format_uptime(host.uptime),
        cpu_model      |-> IF host.cpus # << >> THEN Head(host.cpus) ELSE "Unknown",
        cpu_cores      |-> Len(host.cpus),
        memory_total   |-> host.total_memory,
        memory_used    |-> host.used_memory,
        disk_total     |-> << >>,
        disk_used      |-> << >>,
        gpu_info       |-> get_gpu_info(os, host.gpu),
        local_ip       |-> get_local_ip(host)]]

(***************************************************************************)
(* app.rs                                                                  *)
(***************************************************************************)
\* App::new: the `?` hands an Err of collect on.
AppNew(os, host) ==
    LET system_info == collect(os, host)
    IN  IF system_info.ok
        THEN [ok |-> TRUE,
              val |-> [system_info |-> system_info.val, should_quit |-> FALSE]]
        ELSE [ok |-> FALSE, val |-> system_info.val]

(***************************************************************************)
(* The layout solver ui.rs calls (Layout::split and Rect::inner).  A Rect  *)
(* is [x, y, width, height].  A split gives the set of results the solver  *)
(* may return: one result, except where a boundary falls exactly between   *)
(* two cells or the constraints cannot all be met, which the solver        *)
(* settles in a way its caller cannot tell.                                *)
(***************************************************************************)
Rect(x, y, width, height) == [x |-> x, y |-> y, width |-> width, height |-> height]

Length(n) == [kind |-> "Length", v |-> n]
Min(n) == [kind |-> "Min", v |-> n]
Percentage(n) == [kind |-> "Percentage", v |-> n]

\* u16::saturating_sub
SaturatingSub(a, b) == IF a >= b THEN a - b ELSE 0

MinOf(a, b) == IF a <= b THEN a ELSE b

RECURSIVE SumSeq(_)
SumSeq(q) == IF q = << >> THEN 0 ELSE Head(q) + SumSeq(Tail(q))

\* Rect::inner: the empty Rect when the margins do not fit
RectInner(r, vertical, horizontal) ==
    IF r.width < 2 * horizontal \/ r.height < 2 * vertical
    THEN Rect(0, 0, 0, 0)
    ELSE Rect(r.x + horizontal, r.y + vertical,
              r.width - 2 * horizontal, r.height - 2 * vertical)

\* n / d rounded to the nearest integer; both neighbours at a tie
RoundSet(n, d) ==
    IF 2 * (n % d) < d THEN {n \div d}
    ELSE IF 2 * (n % d) > d THEN {(n \div d) + 1}
    ELSE {n \div d, (n \div d) + 1}

\* Percentages that add up to 100: every boundary is the rounded share of
\* the total up to it.  These are the sizes of segments i.. when the
\* boundary before them is at prev and the percentages before add up to cum.
RECURSIVE PercentFrom(_, _, _, _, _)
PercentFrom(total, cons, i, prev, cum) ==
    IF i > Len(cons) THEN {<< >>}
    ELSE UNION {{<< b - prev >> \o rest :
                    rest \in PercentFrom(total, cons, i + 1, b, cum + cons[i].v)} :
                  b \in RoundSet((cum + cons[i].v) * total, 100)}

PercentSizes(total, cons) == PercentFrom(total, cons, 1, 0, 0)

\* The ways to hand out `left` cells to segments i..: segment k gets floor,
\* every other one at most its length.
RECURSIVE ShareFrom(_, _, _, _, _)
ShareFrom(cons, i, k, floor, left) ==
    IF i > Len(cons) THEN (IF left = 0 THEN {<< >>} ELSE {})
    ELSE UNION {{<< v >> \o rest : rest \in ShareFrom(cons, i + 1, k, floor, left - v)} :
                  v \in IF i = k THEN {floor} \cap (0..left)
                        ELSE 0..MinOf(cons[i].v, left)}

\* Lengths and one Min.  With room for all, every Length gets its rows and
\* the Min segment the rest.  Without, the Min segment is served first (its
\* constraint is the stronger one) and the Lengths share what is left, none
\* above its length.
LengthMinSizes(total, cons) ==
    LET n     == Len(cons)
        k     == CHOOSE i \in 1..n : cons[i].kind = "Min"
        want  == SumSeq([i \in 1..n |-> IF i = k THEN 0 ELSE cons[i].v])
    IN  IF total >= want + cons[k].v
        THEN {[i \in 1..n |-> IF i = k THEN total - want ELSE cons[i].v]}
        ELSE ShareFrom(cons, 1, k, MinOf(cons[k].v, total), total)

LayoutSizes(total, cons) ==
    IF \A i \in 1..Len(cons) : cons[i].kind = "Percentage"
    THEN PercentSizes(total, cons)
    ELSE LengthMinSizes(total, cons)

\* The chunks of sizes q laid one after the other in area r.
Stack(direction, r, q) ==
    [i \in 1..Len(q) |->
        LET before == SumSeq(SubSeq(q, 1, i - 1))
        IN  IF direction = "Vertical"
            THEN Rect(r.x, r.y + before, r.width, q[i])
            ELSE Rect(r.x + before, r.y, q[i], r.height)]

\* Layout::default().direction(d).margin(m).constraints(cons).split(area)
LayoutSplit(direction, margin, cons, area) ==
    LET r == RectInner(area, margin, margin)
    IN  {Stack(direction, r, q) :
            q \in LayoutSizes(IF direction = "Vertical" THEN r.height ELSE r.width, cons)}

(***************************************************************************)
(* ui.rs.  A draw function gives the set of its possible results, each     *)
(* [ops, panic]: the widgets it rendered, in order, and whether it ended   *)
(* in a panic (ops are then the ones rendered before it).  A title is kept *)
(* without its pictograph.                                                 *)
(***************************************************************************)
Op(fn, widget, area, title, lines, alignment, percent) ==
    [fn |-> fn, widget |-> widget, area |-> area, title |-> title,
     lines |-> lines, alignment |-> alignment, percent |-> percent]

Paragraph(fn, area, title, lines, alignment) ==
    Op(fn, "Paragraph", area, title, lines, alignment, 0)

Block(fn, area, title) == Op(fn, "Block", area, title, << >>, "Left", 0)

Done(ops) == {[ops |-> ops, panic |-> FALSE]}

Panicked(ops) == {[ops |-> ops, panic |-> TRUE]}

\* a, then b unless a ended in a panic
Then(a, b) ==
    {IF x.panic THEN x ELSE [ops |-> x.ops \o y.ops, panic |-> y.panic] :
        x \in a, y \in b}

\* Gauge::default()...percent(p) rendered into area: the builder asserts
\* p <= 100, and a failed assertion is a panic.
Gauge(fn, area, percent) ==
    IF percent > 100 THEN Panicked(<< >>)
    ELSE Done(<< Op(fn, "Gauge", area, "", << >>, "Left", percent) >>)

draw_title(area) ==
    Done(<< Paragraph("draw_title", area, "", << "sysfetch-rs" >>, "Center") >>)

draw_ascii_art(area) ==
    Done(<< Paragraph("draw_ascii_art", area, "System", << "logo" >>, "Center") >>)

draw_system_info(area, app) ==
    LET info == app.system_info
    IN  Done(<< Paragraph("draw_system_info", area, "System Info",
                   << "OS: " \o info.os_name \o " " \o info.os_version,
                      "Kernel: " \o info.kernel_version,
                      "Host: " \o info.hostname,
                      "User: " \o info.username,
                      "Uptime: " \o info.uptime >>, "Left") >>)

draw_cpu_info(area, info) ==
    Done(<< Paragraph("draw_cpu_info", area, "CPU",
               << "CPU: " \o info.cpu_model \o " (" \o ToString(info.cpu_cores)
                      \o " Cores)" >>, "Left") >>)

\* format!("{} / {} ({}%)", format_bytes(used), format_bytes(total), percent)
UsageText(used, total, percent) ==
    format_bytes(used) \o " / " \o format_bytes(total)
        \o " (" \o ToString(percent) \o "%)"

\* UsageWidgets with the bar from 2 interior rows on
UsageWidgetsFromTwo(fn, title, area, percent, text) ==
    IF SaturatingSub(area.height, 2) >= 2
    THEN UNION {Then(Done(<< Paragraph(fn, chunks[1], "", << text >>, "Left") >>),
                Then(Gauge(fn, chunks[2], percent),
                     Done(<< Block(fn, area, title) >>))) :
                   chunks \in LayoutSplit("Vertical", 0, << Length(1), Min(1) >>,
                                          RectInner(area, 1, 1))}
    ELSE Then(Done(<< Paragraph(fn, RectInner(area, 1, 1), "", << text >>, "Center") >>),
              Done(<< Block(fn, area, title) >>))

\* What draw_memory_info and draw_disk_info do, word for word, once the
\* percentage and the text are computed: with 3 interior rows or more the
\* text and a gauge below it, with fewer the text alone, centered.
UsageWidgets(fn, title, area, percent, text) ==
    IF SaturatingSub(area.height, 2) >= 3
    THEN UNION {Then(Done(<< Paragraph(fn, chunks[1], "", << text >>, "Left") >>),
                Then(Gauge(fn, chunks[2], percent),
                     Done(<< Block(fn, area, title) >>))) :
                   chunks \in LayoutSplit("Vertical", 0, << Length(1), Min(1) >>,
                                          RectInner(area, 1, 1))}
    ELSE Then(Done(<< Paragraph(fn, RectInner(area, 1, 1), "", << text >>, "Center") >>),
              Done(<< Block(fn, area, title) >>))

UsageOf(fn, title, area, used, total, percent) ==
    UsageWidgets(fn, title, area, percent, UsageText(used, total, percent))

UsagePanel(fn, title, area, used, total) ==
    UsageOf(fn, title, area, used, total, usage_percent(used, total))

draw_memory_info(area, info) ==
    UsagePanel("draw_memory_info", "Memory", area, info.memory_used, info.memory_total)

draw_gpu_info(area, info) ==
    Done(<< Paragraph("draw_gpu_info", area, "GPU", << "GPU: " \o info.gpu_info >>,
                      "Left") >>)

draw_ip_info(area, info) ==
    Done(<< Paragraph("draw_ip_info", area, "Network",
                      << "Local IP: " \o info.local_ip >>, "Left") >>)

draw_disk_info(area, info) ==
    UsagePanel("draw_disk_info", "Disk", area, info.disk_used, info.disk_total)

min_section_height == 3
sections == 5

\* hardware_constraints with five rows for the memory panel
hardware_constraints_roomy(area) ==
    << Length(4), Length(5), Length(3), Length(3), Min(3) >>

\* The constraints draw_hardware_info chooses for an area.
hardware_constraints(area) ==
    LET available_height == SaturatingSub(area.height, 2)
    IN  IF available_height >= sections * min_section_height
        THEN << Length(4), Length(4), Length(3), Length(3), Min(3) >>
        ELSE << Percentage(20), Percentage(25), Percentage(15), Percentage(15),
                Percentage(25) >>

draw_hardware_info(area, app) ==
    LET info == app.system_info
    IN  UNION {Then(draw_cpu_info(chunks[1], info),
               Then(draw_memory_info(chunks[2], info),
               Then(draw_gpu_info(chunks[3], info),
               Then(draw_ip_info(chunks[4], info),
               Then(draw_disk_info(chunks[5], info),
                    Done(<< Block("draw_hardware_info", area, "Hardware Info") >>)))))) :
                  chunks \in LayoutSplit("Vertical", 0, hardware_constraints(area),
                                         RectInner(area, 1, 1))}

draw_help(area) ==
    Done(<< Paragraph("draw_help", area, "", << "Press 'q' or 'Esc' to quit" >>,
                      "Center") >>)

draw_compact_info(area, app) ==
    LET info == app.system_info
    IN  Done(<< Paragraph("draw_compact_info", area, "System Info",
                   << "OS: " \o info.os_name \o " " \o info.os_version,
                      "Host: " \o info.hostname,
                      "CPU: " \o info.cpu_model,
                      "Memory: " \o format_bytes(info.memory_used) \o " / "
                          \o format_bytes(info.memory_total),
                      "Disk: " \o format_bytes(info.disk_used) \o " / "
                          \o format_bytes(info.disk_total) >>, "Left") >>)

draw_compact_layout(size, app) ==
    UNION {Then(Done(<< Paragraph("draw_compact_layout", chunks[1], "",
                                  << "sysfetch-rs" >>, "Center") >>),
           Then(draw_compact_info(chunks[2], app),
                Done(<< Paragraph("draw_compact_layout", chunks[3], "",
                                  << "q: quit" >>, "Center") >>))) :
              chunks \in LayoutSplit("Vertical", 1, << Length(1), Min(0), Length(1) >>,
                                     size)}

draw_all_info_vertical(area, app) ==
    UNION {Then(draw_system_info(chunks[1], app), draw_hardware_info(chunks[2], app)) :
              chunks \in LayoutSplit("Vertical", 0, << Length(8), Min(0) >>, area)}

\* The narrow branch of draw: the art above everything else.
draw_narrow(area, app) ==
    UNION {Then(draw_ascii_art(main_chunks[1]),
                draw_all_info_vertical(main_chunks[2], app)) :
              main_chunks \in LayoutSplit("Vertical", 0, << Length(8), Min(0) >>, area)}

\* The wide branch of draw: the art to the left of the two info panels.
draw_wide(area, app) ==
    UNION {Then(draw_ascii_art(main_chunks[1]),
                UNION {Then(draw_system_info(right_chunks[1], app),
                            draw_hardware_info(right_chunks[2], app)) :
                          right_chunks \in
                              LayoutSplit("Vertical", 0,
                                  << Percentage(30), Percentage(70) >>, main_chunks[2])}) :
              main_chunks \in LayoutSplit("Horizontal", 0,
                                          << Percentage(40), Percentage(60) >>, area)}

\* layout_mode with its boundary values on the other side
layout_mode_inclusive(size) ==
    IF size.height <= 20 \/ size.width <= 60 THEN "compact"
    ELSE IF size.width <= 100 THEN "narrow"
    ELSE "wide"

\* The size tests of draw, in its order: which layout a frame gets.
layout_mode(size) ==
    IF size.height < 20 \/ size.width < 60 THEN "compact"
    ELSE IF size.width < 100 THEN "narrow"
    ELSE "wide"

\* draw: the frames it may render for a terminal of this size, each
\* [size, mode, info, ops, panic]; info is the snapshot it read.
draw(size, app) ==
    LET mode == layout_mode(size)
        done == IF mode = "compact" THEN draw_compact_layout(size, app)
                ELSE UNION {Then(draw_title(chunks[1]),
                            Then(IF mode = "narrow" THEN draw_narrow(chunks[2], app)
                                 ELSE draw_wide(chunks[2], app),
                                 draw_help(chunks[3]))) :
                               chunks \in LayoutSplit("Vertical", 1,
                                   << Length(3), Min(0), Length(3) >>, size)}
    IN  {[size |-> size, mode |-> mode, info |-> app.system_info,
          ops |-> r.ops, panic |-> r.panic] : r \in done}

(***************************************************************************)
(* main.rs: the driver.                                                    *)
(***************************************************************************)
VARIABLES
    os,             \* the build's target_os
    host,           \* what the host answers to the collector's queries
    term,           \* the terminal's size, what f.size() gives
    pc,             \* where main (or the function under check) stands
    raw_mode,       \* the terminal is in raw mode
    alt_screen,     \* the alternate screen is entered
    mouse_capture,  \* mouse capture is enabled
    cursor_hidden,  \* the cursor is hidden
    app,            \* the App of main, an Option
    res,            \* the result of run_app: "pending", "Ok" or "Err"
    frame,          \* the last frame drawn, an Option
    prev_mode,      \* the layout mode of the frame drawn before it, or "none"
    event,          \* the last event read, NoEvent before the first
    collects,       \* how often SystemInfo::collect was called
    snapshot,       \* what the last call of collect returned, an Option
    printed,        \* main printed the error of run_app
    exit_code,      \* the exit status of the process, -1 while it runs
    arg,            \* the argument of the function under check
    ret             \* its result, an Option

vars == << os, host, term, pc, raw_mode, alt_screen, mouse_capture, cursor_hidden,
           app, res, frame, prev_mode, event, collects, snapshot, printed, exit_code,
           arg, ret >>

\* handle_event reading the uptime anew at a resize
handle_event_refreshing(a, ev) ==
    IF ev.kind = "Key"
    THEN IF ev.code = "q" \/ ev.code = "Esc"
         THEN [a EXCEPT !.should_quit = TRUE]
         ELSE a
    ELSE IF ev.kind = "Resize"
    THEN [a EXCEPT !.system_info.uptime = "0m"]
    ELSE a

\* handle_event quitting on every key
handle_event_any_key(a, ev) ==
    IF ev.kind = "Key" THEN [a EXCEPT !.should_quit = TRUE] ELSE a

\* The arm of run_app for one event: only a key event is looked at.
handle_event(a, ev) ==
    IF ev.kind = "Key"
    THEN IF ev.code = "q" \/ ev.code = "Esc"
         THEN [a EXCEPT !.should_quit = TRUE]
         ELSE a
    ELSE a

\* main returns the Err of a `?`: the process ends with status 1.
Fail == /\ pc' = "exited"
        /\ exit_code' = 1

EnableRawMode ==
    /\ pc = "enable_raw_mode"
    /\ \E ok \in BOOLEAN :
          IF ok THEN /\ raw_mode' = TRUE
                     /\ pc' = "enter_alternate_screen"
                     /\ UNCHANGED exit_code
          ELSE /\ Fail
               /\ UNCHANGED raw_mode
    /\ UNCHANGED << os, host, term, alt_screen, mouse_capture, cursor_hidden, app, res,
                    frame, prev_mode, event, collects, snapshot, printed, arg, ret >>

\* execute!(stdout, EnterAlternateScreen, EnableMouseCapture)?: done is how
\* many of the two commands were written before an error, 2 for none.
EnterAlternateScreen ==
    /\ pc = "enter_alternate_screen"
    /\ \E done \in 0..2 :
          /\ alt_screen' = (done >= 1)
          /\ mouse_capture' = (done >= 2)
          /\ IF done = 2 THEN pc' = "terminal_new" /\ UNCHANGED exit_code ELSE Fail
    /\ UNCHANGED << os, host, term, raw_mode, cursor_hidden, app, res, frame, prev_mode, event,
                    collects, snapshot, printed, arg, ret >>

TerminalNew ==
    /\ pc = "terminal_new"
    /\ \E ok \in BOOLEAN :
          IF ok THEN pc' = "app_new" /\ UNCHANGED exit_code ELSE Fail
    /\ UNCHANGED << os, host, term, raw_mode, alt_screen, mouse_capture, cursor_hidden,
                    app, res, frame, prev_mode, event, collects, snapshot, printed, arg, ret >>

\* let app = App::new()?;
NewApp ==
    /\ pc = "app_new"
    /\ LET r == AppNew(os, host)
       IN  /\ collects' = collects + 1
           /\ snapshot' = IF r.ok THEN Some(r.val.system_info) ELSE snapshot
           /\ app' = IF r.ok THEN Some(r.val) ELSE app
           /\ pc' = IF r.ok THEN "draw" ELSE "exited"
           /\ exit_code' = IF r.ok THEN exit_code ELSE 1
    /\ UNCHANGED << os, host, term, raw_mode, alt_screen, mouse_capture, cursor_hidden,
                    res, frame, prev_mode, event, printed, arg, ret >>

\* terminal.draw(|f| ui::draw(f, &app))?: an error of the backend, or a
\* frame for the size the terminal has now.  A panic of draw ends the
\* process where it stands, with status 101.
DrawFrame ==
    /\ pc = "draw"
    /\ \/ /\ res' = "Err"
          /\ pc' = "disable_raw_mode"
          /\ UNCHANGED << frame, prev_mode, cursor_hidden, exit_code >>
       \/ \E f \in draw(term, app.v) :
             /\ frame' = IF f.panic THEN frame ELSE Some(f)
             /\ prev_mode' = IF f.panic \/ ~frame.some THEN prev_mode ELSE frame.v.mode
             /\ cursor_hidden' = IF f.panic THEN cursor_hidden ELSE TRUE
             /\ pc' = IF f.panic THEN "exited" ELSE "read"
             /\ exit_code' = IF f.panic THEN 101 ELSE exit_code
             /\ UNCHANGED res
    /\ UNCHANGED << os, host, term, raw_mode, alt_screen, mouse_capture, app, event,
                    collects, snapshot, printed, arg, ret >>

KeyCodes == {"q", "Esc", "Q", "x", "Enter"}

\* The sizes a terminal takes here: around every threshold of draw.
TermSizes ==
    {Rect(0, 0, w, h) : w \in {59, 60, 99, 100}, h \in {19, 20, 43}}

NoEvent == [kind |-> "None", code |-> "", size |-> Rect(0, 0, 0, 0)]

\* What event::read may give: any key, a resize, and the events that are
\* neither.
Events ==
    {[kind |-> "Key", code |-> c, size |-> Rect(0, 0, 0, 0)] : c \in KeyCodes}
        \cup {[kind |-> "Resize", code |-> "", size |-> z] : z \in TermSizes}
        \cup {[kind |-> k, code |-> "", size |-> Rect(0, 0, 0, 0)] :
                 k \in {"Mouse", "FocusGained"}}

\* event::read()? and the rest of the loop body: the error ends run_app, an
\* event is handled and the loop goes on unless should_quit is set.
ReadEvent ==
    /\ pc = "read"
    /\ \/ /\ res' = "Err"
          /\ pc' = "disable_raw_mode"
          /\ UNCHANGED << app, term, event >>
       \/ \E ev \in Events :
             LET a == handle_event(app.v, ev)
             IN  /\ event' = ev
                 /\ app' = Some(a)
                 /\ term' = IF ev.kind = "Resize" THEN ev.size ELSE term
                 /\ res' = IF a.should_quit THEN "Ok" ELSE res
                 /\ pc' = IF a.should_quit THEN "disable_raw_mode" ELSE "draw"
    /\ UNCHANGED << os, host, raw_mode, alt_screen, mouse_capture, cursor_hidden, frame,
                    prev_mode, collects, snapshot, printed, exit_code, arg, ret >>

DisableRawMode ==
    /\ pc = "disable_raw_mode"
    /\ \E ok \in BOOLEAN :
          IF ok THEN /\ raw_mode' = FALSE
                     /\ pc' = "leave_alternate_screen"
                     /\ UNCHANGED exit_code
          ELSE /\ Fail
               /\ UNCHANGED raw_mode
    /\ UNCHANGED << os, host, term, alt_screen, mouse_capture, cursor_hidden, app, res,
                    frame, prev_mode, event, collects, snapshot, printed, arg, ret >>

\* execute!(terminal.backend_mut(), LeaveAlternateScreen, DisableMouseCapture)?
LeaveAlternateScreen ==
    /\ pc = "leave_alternate_screen"
    /\ \E done \in 0..2 :
          /\ alt_screen' = IF done >= 1 THEN FALSE ELSE alt_screen
          /\ mouse_capture' = IF done >= 2 THEN FALSE ELSE mouse_capture
          /\ IF done = 2 THEN pc' = "show_cursor" /\ UNCHANGED exit_code ELSE Fail
    /\ UNCHANGED << os, host, term, raw_mode, cursor_hidden, app, res, frame, prev_mode, event,
                    collects, snapshot, printed, arg, ret >>

ShowCursor ==
    /\ pc = "show_cursor"
    /\ \E ok \in BOOLEAN :
          IF ok THEN /\ cursor_hidden' = FALSE
                     /\ pc' = "report"
                     /\ UNCHANGED exit_code
          ELSE /\ Fail
               /\ UNCHANGED cursor_hidden
    /\ UNCHANGED << os, host, term, raw_mode, alt_screen, mouse_capture, app, res,
                    frame, prev_mode, event, collects, snapshot, printed, arg, ret >>

\* if let Err(err) = res { println!(...) }  Ok(())
Report ==
    /\ pc = "report"
    /\ printed' = (res = "Err")
    /\ pc' = "exited"
    /\ exit_code' = 0
    /\ UNCHANGED << os, host, term, raw_mode, alt_screen, mouse_capture, cursor_hidden,
                    app, res, frame, prev_mode, event, collects, snapshot, arg, ret >>

(***************************************************************************)
(* The hosts, terminals and values the checks run over.                    *)
(***************************************************************************)
Platforms == {"windows", "linux", "macos", "other"}

\* A u64: below 2^64
IsU64(b) == BitLen(b) <= 64

\* A probe whose process could not be launched, one whose output names no
\* device, and one whose output names a device, for each platform's tool.
NoLaunch == [launched |-> FALSE, stdout |-> << >>]

NoDevice == [launched |-> TRUE, stdout |-> << << >>, << "E", "r", "r", "o", "r" >> >>]

WmicOutput ==
    [launched |-> TRUE,
     stdout |-> << << >>, NamePrefix \o << "G", "P", "U", " ", "A" >>, << >> >>]

LspciOutput ==
    [launched |-> TRUE,
     stdout |-> << << "0", "0", ":", "1", "f", ".", "3", " ", "\"", "S", "M", "B",
                      "u", "s", "\"", " ", "\"", "I", "n", "t", "e", "l", "\"", " ",
                      "\"", "P", "C", "H", "\"" >>,
                   << "0", "1", ":", "0", "0", ".", "0", " ", "\"" >> \o VgaMarker
                       \o << "\"", " ", "\"", "N", "V", "\"", " ", "\"", "G", "P",
                             "U", " ", "A", "\"", " ", "-", "r", "a", "1" >> >>]

ProfilerOutput ==
    [launched |-> TRUE,
     stdout |-> << << "{" >>,
                   << " ", " " >> \o NameKey \o << "G", "P", "U", " ", "A", "\"", "," >>,
                   << "}" >> >>]

DeviceFound(target) ==
    IF target = "windows" THEN WmicOutput
    ELSE IF target = "linux" THEN LspciOutput
    ELSE ProfilerOutput

\* The host whose queries in `known` succeed and the others fail, with
\* these CPUs, this memory and this answer of the GPU tool.
Host(known, cpus, uptime, used, total, probe) ==
    [name           |-> IF "name" \in known THEN Some("Arch Linux") ELSE None,
     os_version     |-> IF "os_version" \in known THEN Some("rolling") ELSE None,
     kernel_version |-> IF "kernel_version" \in known THEN Some("6.1.0") ELSE None,
     host_name      |-> IF "host_name" \in known THEN Some("box") ELSE None,
     USER           |-> IF "USER" \in known THEN Some("alice") ELSE None,
     USERNAME       |-> IF "USERNAME" \in known THEN Some("bob") ELSE None,
     local_ip       |-> IF "local_ip" \in known THEN Some("192.168.1.2") ELSE None,
     uptime         |-> uptime,
     cpus           |-> cpus,
     used_memory    |-> used,
     total_memory   |-> total,
     gpu            |-> probe]

Queries == {"name", "os_version", "kernel_version", "host_name", "USER", "USERNAME",
            "local_ip"}

TwoCpus == << "Ryzen 7", "Ryzen 7" >>

\* Memory readings [used, total]: half used, nothing reported, a total of
\* 0 with some use, 29 and 57 hundredths, more used than there is, and far
\* more used than there is (700 times).
MemoryReadings ==
    { << Shl(<< 1 >>, 32), Shl(<< 1 >>, 33) >>,
      << << >>, << >> >>,
      << FromNat(7), << >> >>,
      << FromNat(29), FromNat(100) >>,
      << MulSmall(Shl(<< 1 >>, 30), 57), MulSmall(Shl(<< 1 >>, 30), 100) >>,
      << FromNat(300), FromNat(100) >>,
      << FromNat(70000), FromNat(100) >> }

\* The hosts the driver is run on.
DriverHosts ==
    { Host(Queries, TwoCpus, 3661, Shl(<< 1 >>, 32), Shl(<< 1 >>, 33), DeviceFound("linux")),
      Host({}, << >>, 0, FromNat(300), FromNat(100), NoLaunch) }

NoArg == [some |-> FALSE, v |-> ""]

\* The state before main starts, with the function under check at pc0.
Start(pc0) ==
    /\ pc = pc0
    /\ raw_mode = FALSE
    /\ alt_screen = FALSE
    /\ mouse_capture = FALSE
    /\ cursor_hidden = FALSE
    /\ app = None
    /\ res = "pending"
    /\ frame = None
    /\ prev_mode = "none"
    /\ event = NoEvent
    /\ collects = 0
    /\ snapshot = None
    /\ printed = FALSE
    /\ exit_code = -1
    /\ ret = None

Init ==
    /\ os = "linux"
    /\ host \in DriverHosts
    /\ term \in TermSizes
    /\ arg = NoArg
    /\ Start("enable_raw_mode")

Next ==
    \/ EnableRawMode
    \/ EnterAlternateScreen
    \/ TerminalNew
    \/ NewApp
    \/ DrawFrame
    \/ ReadEvent
    \/ DisableRawMode
    \/ LeaveAlternateScreen
    \/ ShowCursor
    \/ Report

Spec == Init /\ [][Next]_vars

(***************************************************************************)
(* draw as a function: every frame of every terminal size up to            *)
(* MaxHeight rows, for the App of every host below.                        *)
(***************************************************************************)
MaxHeight == 50

RenderWidths == {0, 1, 59, 60, 61, 99, 100, 101, 160}

RenderHosts ==
    {Host(Queries, TwoCpus, 90061, m[1], m[2], DeviceFound("linux")) : m \in MemoryReadings}

InitRender ==
    /\ os = "linux"
    /\ host \in RenderHosts
    /\ term \in {Rect(0, 0, w, h) : w \in RenderWidths, h \in 0..MaxHeight}
    /\ arg = Some(AppNew(os, host).val)
    /\ Start("render")

RenderFrame ==
    /\ pc = "render"
    /\ \E f \in draw(term, arg.v) :
          /\ ret' = Some(f)
          /\ pc' = IF f.panic THEN "panicked" ELSE "rendered"
    /\ UNCHANGED << os, host, term, raw_mode, alt_screen, mouse_capture, cursor_hidden,
                    app, res, frame, prev_mode, event, collects, snapshot, printed, exit_code,
                    arg >>

SpecRender == InitRender /\ [][RenderFrame]_vars

(***************************************************************************)
(* format_bytes as a function, over byte counts around every power of      *)
(* 1024 up to 1024^MaxShift and up to the largest u64.                     *)
(***************************************************************************)
MaxShift == 5

ByteMantissas == {0, 1, 2, 500, 1023, 1536}

ByteOffsets == {0, 1, 51, 52, 512, 1023}

ByteCounts ==
    {b \in {AddB(Shl(FromNat(m), 10 * k), FromNat(d)) :
               m \in ByteMantissas, k \in 0..MaxShift, d \in ByteOffsets}
           \cup {SubB(Shl(<< 1 >>, 10 * k), << 1 >>) : k \in 1..(MaxShift + 1)}
           \cup {SubB(Shl(<< 1 >>, 64), << 1 >>)} :
        IsU64(b)}

InitFormat ==
    /\ os = "linux"
    /\ host = Host({}, << >>, 0, << >>, << >>, NoLaunch)
    /\ term = Rect(0, 0, 0, 0)
    /\ arg \in {Some(b) : b \in ByteCounts}
    /\ Start("format_bytes")

FormatBytes ==
    /\ pc = "format_bytes"
    /\ ret' = Some(format_bytes(arg.v))
    /\ pc' = "formatted"
    /\ UNCHANGED << os, host, term, raw_mode, alt_screen, mouse_capture, cursor_hidden,
                    app, res, frame, prev_mode, event, collects, snapshot, printed,
                    exit_code, arg >>

SpecFormat == InitFormat /\ [][FormatBytes]_vars

(***************************************************************************)
(* format_uptime as a function, over the uptimes of up to MaxDays days     *)
(* whose hours, minutes and seconds are at their ends.                     *)
(***************************************************************************)
MaxDays == 2

ClockEnds == {0, 1, 23, 30, 59}

Uptimes ==
    {d * 86400 + h * 3600 + m * 60 + sec :
        d \in 0..MaxDays, h \in ClockEnds \cap (0..23), m \in ClockEnds, sec \in ClockEnds}

InitUptime ==
    /\ os = "linux"
    /\ host = Host({}, << >>, 0, << >>, << >>, NoLaunch)
    /\ term = Rect(0, 0, 0, 0)
    /\ arg \in {Some(u) : u \in Uptimes}
    /\ Start("format_uptime")

FormatUptime ==
    /\ pc = "format_uptime"
    /\ ret' = Some(format_uptime(arg.v))
    /\ pc' = "uptime_formatted"
    /\ UNCHANGED << os, host, term, raw_mode, alt_screen, mouse_capture, cursor_hidden,
                    app, res, frame, prev_mode, event, collects, snapshot, printed,
                    exit_code, arg >>

SpecUptime == InitUptime /\ [][FormatUptime]_vars

(***************************************************************************)
(* App::new (and with it SystemInfo::collect) as a function, over every    *)
(* build target and every combination of queries that fail.                *)
(***************************************************************************)
CollectHosts(target) ==
    {Host(known, cpus, 3661, Shl(<< 1 >>, 32), Shl(<< 1 >>, 33), probe) :
        known \in SUBSET Queries,
        cpus \in {<< >>, TwoCpus},
        probe \in {NoLaunch, NoDevice, DeviceFound(target)}}

InitCollect ==
    /\ os \in Platforms
    /\ host \in CollectHosts(os)
    /\ term = Rect(0, 0, 0, 0)
    /\ arg = NoArg
    /\ Start("app_new_call")

CallAppNew ==
    /\ pc = "app_new_call"
    /\ ret' = Some(AppNew(os, host))
    /\ pc' = "app_new_returned"
    /\ UNCHANGED << os, host, term, raw_mode, alt_screen, mouse_capture, cursor_hidden,
                    app, res, frame, prev_mode, event, collects, snapshot, printed,
                    exit_code, arg >>

SpecCollect == InitCollect /\ [][CallAppNew]_vars

(***************************************************************************)
(* get_gpu_info as a function, over every build target and the outputs a   *)
(* probe can give: not launched, or up to MaxLines lines of the tools.     *)
(***************************************************************************)
MaxLines == 2

\* The lines an output is made of here.
ProbeLines ==
    {
      \* wmic: the field without a value
      << "N", "a", "m", "e", "=" >>,
      \* wmic: the field with a blank value
      << "N", "a", "m", "e", "=", " ", " " >>,
      \* wmic: the field naming a device
      << "N", "a", "m", "e", "=", "G", "P", "U", " ", "A" >>,
      \* wmic: a device, with the carriage return wmic leaves on a line
      << "N", "a", "m", "e", "=", "G", "P", "U", " ", "B", "\r" >>,
      \* lspci -mm: a device that is no GPU
      << "0", "0", ":", "1", "f", ".", "3", " ", "\"", "S", "M", "B", "u", "s", "\"",
         " ", "\"", "I", "n", "t", "e", "l", "\"", " ", "\"", "P", "C", "H", "\"" >>,
      \* lspci -mm: a VGA controller
      << "0", "1", ":", "0", "0", ".", "0", " ", "\"", "V", "G", "A", " ", "c", "o",
         "m", "p", "a", "t", "i", "b", "l", "e", " ", "c", "o", "n", "t", "r", "o",
         "l", "l", "e", "r", "\"", " ", "\"", "N", "V", "\"", " ", "\"", "G", "P", "U",
         " ", "A", "\"", " ", "-", "r", "a", "1" >>,
      \* lspci -mm: a 3D controller line cut short
      << "0", "2", ":", "0", "0", ".", "0", " ", "\"", "3", "D", " ", "c", "o", "n",
         "t", "r", "o", "l", "l", "e", "r", "\"", " ", "\"", "N", "V" >>,
      \* lspci -mm: a 3D controller
      << "0", "2", ":", "0", "0", ".", "0", " ", "\"", "3", "D", " ", "c", "o", "n",
         "t", "r", "o", "l", "l", "e", "r", "\"", " ", "\"", "A", "M", "D", "\"", " ",
         "\"", "G", "P", "U", " ", "B", "\"" >>,
      \* system_profiler -json: the key naming a device
      << " ", " ", "\"", "_", "n", "a", "m", "e", "\"", " ", ":", " ", "\"", "G", "P",
         "U", " ", "A", "\"", "," >>,
      \* system_profiler -json: the key with an empty name
      << " ", " ", "\"", "_", "n", "a", "m", "e", "\"", " ", ":", " ", "\"", "\"",
         "," >>,
      \* a line of none of the tools
      << "E", "r", "r", "o", "r" >>,
      \* an empty line
      << >>
    }

\* system_profiler -json: an output cut within the name
KeyCut ==
    << " ", " ", "\"", "_", "n", "a", "m", "e", "\"", " ", ":", " ", "\"", "G", "P",
       "U" >>

RECURSIVE LinesUpTo(_)
LinesUpTo(n) ==
    IF n = 0 THEN {<< >>}
    ELSE LinesUpTo(n - 1)
            \cup {<< l >> \o q : l \in ProbeLines, q \in {r \in LinesUpTo(n - 1) : Len(r) = n - 1}}

\* What Command::output may give get_gpu_info.
GpuProbes ==
    {NoLaunch, [launched |-> TRUE, stdout |-> << KeyCut >>]}
        \cup {[launched |-> TRUE, stdout |-> q] : q \in LinesUpTo(MaxLines)}

InitGpu ==
    /\ os \in Platforms
    /\ host \in {Host({}, << >>, 0, << >>, << >>, probe) : probe \in GpuProbes}
    /\ term = Rect(0, 0, 0, 0)
    /\ arg = NoArg
    /\ Start("get_gpu_info_call")

CallGetGpuInfo ==
    /\ pc = "get_gpu_info_call"
    /\ ret' = Some(get_gpu_info(os, host.gpu))
    /\ pc' = "get_gpu_info_returned"
    /\ UNCHANGED << os, host, term, raw_mode, alt_screen, mouse_capture, cursor_hidden,
                    app, res, frame, prev_mode, event, collects, snapshot, printed,
                    exit_code, arg >>

SpecGpu == InitGpu /\ [][CallGetGpuInfo]_vars

(***************************************************************************)
(* What a frame shows.                                                     *)
(***************************************************************************)
\* The places in the ops of frame f of the widgets of this kind that
\* function fn rendered.
OpsOf(f, fn, widget) ==
    {i \in 1..Len(f.ops) : f.ops[i].fn = fn /\ f.ops[i].widget = widget}

\* The area of the only widget of this kind that fn rendered in f.
AreaOf(f, fn, widget) == f.ops[CHOOSE i \in OpsOf(f, fn, widget) : TRUE].area

\* The layout the widgets of f are in: the compact panel, or the art above
\* or beside the system panel.
ShownMode(f) ==
    IF OpsOf(f, "draw_compact_info", "Paragraph") # {} THEN "compact"
    ELSE IF AreaOf(f, "draw_ascii_art", "Paragraph").y
                = AreaOf(f, "draw_system_info", "Paragraph").y
         THEN "wide"
         ELSE "narrow"

\* The two panels with a usage bar, and the five of the hardware region in
\* their order, each with the widget that has the panel's area.
UsagePanels == {"draw_memory_info", "draw_disk_info"}

HardwarePanels ==
    << << "draw_cpu_info", "Paragraph" >>, << "draw_memory_info", "Block" >>,
       << "draw_gpu_info", "Paragraph" >>, << "draw_ip_info", "Paragraph" >>,
       << "draw_disk_info", "Block" >> >>

(***************************************************************************)
(* C1.  On every frame, after any resize and key events, the layout draw   *)
(* uses is decided by the size the terminal has at that frame alone:       *)
(* compact if height < 20 or width < 60, else narrow if width < 100, else  *)
(* wide; 20 rows and 60 columns are not compact, 100 columns are wide.     *)
(***************************************************************************)
C1_LayoutModeBySize ==
    pc = "read" =>
        /\ frame.some
        /\ frame.v.size = term
        /\ LET by_size == IF term.height < 20 \/ term.width < 60 THEN "compact"
                          ELSE IF term.width < 100 THEN "narrow"
                          ELSE "wide"
           IN  frame.v.mode = by_size /\ ShownMode(frame.v) = by_size

\* A wide frame at exactly 100 x 20, drawn after a resize from a compact one.
C1_Witness ==
    /\ pc = "read"
    /\ event.kind = "Resize"
    /\ prev_mode = "compact"
    /\ term = Rect(0, 0, 100, 20)
    /\ frame.v.mode = "wide"
    /\ ShownMode(frame.v) = "wide"

(***************************************************************************)
(* C2.  Rendering a frame never panics, whatever the terminal size and     *)
(* the snapshot (memory_used above memory_total included), and no gauge is *)
(* built with a percentage above 100.                                      *)
(***************************************************************************)
C2_RenderNeverPanics ==
    /\ pc # "panicked"
    /\ pc = "rendered" =>
          /\ ~ret.v.panic
          /\ \A i \in 1..Len(ret.v.ops) :
                ret.v.ops[i].widget = "Gauge" => ret.v.ops[i].percent <= 100

\* A frame with a usage bar in it, for a snapshot whose memory use is 300%.
C2_Witness ==
    /\ pc = "rendered"
    /\ usage_percent(arg.v.system_info.memory_used, arg.v.system_info.memory_total) = 300
    /\ OpsOf(ret.v, "draw_memory_info", "Paragraph") # {}
    /\ OpsOf(ret.v, "draw_disk_info", "Gauge") # {}

(***************************************************************************)
(* C3.  The memory and the disk panel alike: with an interior (height      *)
(* minus 2, not below 0) of 3 rows or more the panel draws its text line   *)
(* and its bar, with fewer only the text line, centered, and no bar; so    *)
(* no bar at 2, both at 3, and nothing goes wrong at heights 0 and 1.      *)
(***************************************************************************)
C3_BarNeedsThreeRows ==
    pc = "rendered" =>
        \A fn \in UsagePanels :
            OpsOf(ret.v, fn, "Block") # {} =>
                LET interior == SaturatingSub(AreaOf(ret.v, fn, "Block").height, 2)
                    texts    == OpsOf(ret.v, fn, "Paragraph")
                    bars     == OpsOf(ret.v, fn, "Gauge")
                IN  /\ ~ret.v.panic
                    /\ Cardinality(texts) = 1
                    /\ IF interior >= 3
                       THEN /\ Cardinality(bars) = 1
                            /\ \A i \in texts : ret.v.ops[i].alignment = "Left"
                       ELSE /\ bars = {}
                            /\ \A i \in texts : ret.v.ops[i].alignment = "Center"

\* A frame whose disk panel has an interior of exactly 3 rows and a bar,
\* and whose memory panel has one of exactly 2 rows and none.
C3_Witness ==
    /\ pc = "rendered"
    /\ OpsOf(ret.v, "draw_disk_info", "Block") # {}
    /\ AreaOf(ret.v, "draw_disk_info", "Block").height = 5
    /\ OpsOf(ret.v, "draw_disk_info", "Gauge") # {}
    /\ AreaOf(ret.v, "draw_memory_info", "Block").height = 4
    /\ OpsOf(ret.v, "draw_memory_info", "Gauge") = {}

(***************************************************************************)
(* C4.  The percentage the memory and the disk panel show is               *)
(* used / total * 100 truncated toward zero for a total above 0, and 0 for *)
(* a total of 0; the disk panel, whose total is 0, shows 0%, and 4 GiB     *)
(* used of 8 GiB read "4.0 GB / 8.0 GB (50%)".                             *)
(***************************************************************************)
\* used / total * 100 truncated toward zero, in exact arithmetic
TruncatedPercent(used, total) ==
    IF total = << >> THEN 0 ELSE ToNat(DivMod(MulSmall(used, 100), total).q)

UsedOf(info, fn) == IF fn = "draw_memory_info" THEN info.memory_used ELSE info.disk_used

TotalOf(info, fn) == IF fn = "draw_memory_info" THEN info.memory_total ELSE info.disk_total

C4_PercentIsTruncatedRatio ==
    pc = "rendered" =>
        \A fn \in UsagePanels :
            LET used    == UsedOf(ret.v.info, fn)
                total   == TotalOf(ret.v.info, fn)
                percent == TruncatedPercent(used, total)
            IN  /\ \A i \in OpsOf(ret.v, fn, "Paragraph") :
                      /\ ret.v.ops[i].lines
                             = << format_bytes(used) \o " / " \o format_bytes(total)
                                      \o " (" \o ToString(percent) \o "%)" >>
                      /\ (used = Shl(<< 1 >>, 32) /\ total = Shl(<< 1 >>, 33))
                             => ret.v.ops[i].lines = << "4.0 GB / 8.0 GB (50%)" >>
                /\ \A i \in OpsOf(ret.v, fn, "Gauge") : ret.v.ops[i].percent = percent

(***************************************************************************)
(* C5.  draw_hardware_info, with available height = region height minus 2  *)
(* (not below 0): from 15 available rows on, the CPU, memory, GPU, network *)
(* and disk panel get 4, 4, 3, 3 rows and the disk panel the rest          *)
(* (available minus 14); below 15 they get 20, 25, 15, 15 and 25 percent   *)
(* of the available height (to the row).  Either way the five are stacked  *)
(* in that order inside the region's interior without overlap, and their   *)
(* heights add up to the available height at most.                         *)
(***************************************************************************)
PanelShares == << 20, 25, 15, 15, 25 >>

PanelArea(f, i) == AreaOf(f, HardwarePanels[i][1], HardwarePanels[i][2])

C5_HardwareRowBudget ==
    (pc = "rendered" /\ OpsOf(ret.v, "draw_hardware_info", "Block") # {}) =>
        LET region    == AreaOf(ret.v, "draw_hardware_info", "Block")
            interior  == RectInner(region, 1, 1)
            available == SaturatingSub(region.height, 2)
            height(i) == PanelArea(ret.v, i).height
            y(i)      == PanelArea(ret.v, i).y
        IN  /\ IF available >= 15
               THEN << height(1), height(2), height(3), height(4), height(5) >>
                        = << 4, 4, 3, 3, available - 14 >>
               ELSE \A i \in 1..5 :
                        /\ 100 * height(i) - PanelShares[i] * available <= 100
                        /\ PanelShares[i] * available - 100 * height(i) <= 100
            /\ \A i \in 1..5 :
                  /\ y(i) >= interior.y
                  /\ y(i) + height(i) <= interior.y + interior.height
            /\ \A i \in 1..4 : y(i) + height(i) <= y(i + 1)
            /\ height(1) + height(2) + height(3) + height(4) + height(5) <= available

(***************************************************************************)
(* C6.  format_bytes divides by 1024 while the value is 1024 or more and   *)
(* the unit is below TB: a count below 1024 is printed as "{b} B", an      *)
(* integer; a count of 1024^k or more, and below 1024^(k+1) unless k = 4,  *)
(* is printed with exactly one decimal digit and the k-th unit of KB, MB,  *)
(* GB, TB (1024^5 and more still in TB).  1024 is "1.0 KB", 1048576 is     *)
(* "1.0 MB", 1073741824 is "1.0 GB" and 500 is "500 B".                    *)
(***************************************************************************)
\* How often 1024 divides into b before the value is below 1024, 4 at most
Tier(b) == IF BitLen(b) <= 10 THEN 0 ELSE MinOf(4, (BitLen(b) - 1) \div 10)

\* The texts with one decimal digit for a value between whole and whole + 1
OneDecimalTexts(whole, unit) ==
    {ToString(i) \o "." \o ToString(d) \o " " \o unit : i \in {whole, whole + 1}, d \in 0..9}

C6_FormatBytesTiers ==
    pc = "formatted" =>
        /\ Tier(arg.v) = 0 => ret.v = ToString(ToNat(arg.v)) \o " B"
        /\ \A k \in 1..4 :
              Tier(arg.v) = k =>
                  ret.v \in OneDecimalTexts(ToNat(Shr(arg.v, 10 * k)),
                                            << "KB", "MB", "GB", "TB" >>[k])
        /\ arg.v = FromNat(500) => ret.v = "500 B"
        /\ arg.v = FromNat(1024) => ret.v = "1.0 KB"
        /\ arg.v = FromNat(1048576) => ret.v = "1.0 MB"
        /\ arg.v = FromNat(1073741824) => ret.v = "1.0 GB"

\* 1024^5 bytes, printed in TB
C6_Witness ==
    /\ pc = "formatted"
    /\ arg.v = Shl(<< 1 >>, 50)
    /\ ret.v = "1024.0 TB"

(***************************************************************************)
(* C7.  format_uptime(s) prints the days, hours and minutes of s, whole,   *)
(* with the seconds dropped: "{d}d {h}h {m}m" if there is a day, else      *)
(* "{h}h {m}m" if there is an hour, else "{m}m", with h below 24 and m     *)
(* below 60.  61 is "1m", 3661 is "1h 1m" and 90061 is "1d 1h 1m".         *)
(***************************************************************************)
C7_FormatUptime ==
    pc = "uptime_formatted" =>
        /\ \E d \in 0..(MaxDays + 1), h \in 0..23, m \in 0..59, sec \in 0..59 :
              /\ arg.v = d * 86400 + h * 3600 + m * 60 + sec
              /\ ret.v = IF d > 0
                         THEN ToString(d) \o "d " \o ToString(h) \o "h "
                                  \o ToString(m) \o "m"
                         ELSE IF h > 0 THEN ToString(h) \o "h " \o ToString(m) \o "m"
                         ELSE ToString(m) \o "m"
        /\ arg.v = 61 => ret.v = "1m"
        /\ arg.v = 3661 => ret.v = "1h 1m"
        /\ arg.v = 90061 => ret.v = "1d 1h 1m"

\* A second short of two days
C7_Witness ==
    /\ pc = "uptime_formatted"
    /\ arg.v = 2 * 86400 - 1
    /\ ret.v = "1d 23h 59m"

(***************************************************************************)
(* C8.  SystemInfo::collect never fails: whichever of its queries fail, it *)
(* returns Ok with a whole snapshot in which every fact that failed holds  *)
(* its fallback ("Unknown", "Unknown GPU", "Unknown IP") and the disk      *)
(* fields are 0; so App::new returns no error.                             *)
(***************************************************************************)
\* The fact a query gave, or the fallback where it failed
FactOr(answer, fallback, fact) == fact = IF answer.some THEN answer.v ELSE fallback

C8_CollectNeverFails ==
    pc = "app_new_returned" =>
        /\ ret.v.ok
        /\ ~ret.v.val.should_quit
        /\ LET info == ret.v.val.system_info
           IN  /\ FactOr(host.name, "Unknown", info.os_name)
               /\ FactOr(host.os_version, "Unknown", info.os_version)
               /\ FactOr(host.kernel_version, "Unknown", info.kernel_version)
               /\ FactOr(host.host_name, "Unknown", info.hostname)
               /\ FactOr(IF host.USER.some THEN host.USER ELSE host.USERNAME, "Unknown",
                         info.username)
               /\ FactOr(host.local_ip, "Unknown IP", info.local_ip)
               /\ host.cpus = << >> => info.cpu_model = "Unknown" /\ info.cpu_cores = 0
               /\ host.cpus # << >> => info.cpu_model = host.cpus[1]
               /\ (os = "other" \/ host.gpu \in {NoLaunch, NoDevice})
                      => info.gpu_info = "Unknown GPU"
               /\ (os # "other" /\ host.gpu = DeviceFound(os)) => info.gpu_info # "Unknown GPU"
               /\ info.disk_total = << >>
               /\ info.disk_used = << >>
               /\ info.uptime = "1h 1m"

\* Every query failed and the snapshot holds every fallback.
C8_Witness ==
    /\ pc = "app_new_returned"
    /\ \A q \in DOMAIN host : q \in Queries => ~host[q].some
    /\ host.cpus = << >>
    /\ host.gpu = NoLaunch
    /\ ret.v.ok
    /\ ret.v.val.system_info.username = "Unknown"
    /\ ret.v.val.system_info.gpu_info = "Unknown GPU"
    /\ ret.v.val.system_info.local_ip = "Unknown IP"

(***************************************************************************)
(* C9.  In the loop of run_app only a key event 'q' or Esc sets            *)
(* should_quit and ends the loop; every other key and every other event    *)
(* leaves should_quit false and the snapshot as it was, and the loop goes  *)
(* on with the next frame.  Once a quit key is read no frame is drawn and  *)
(* no event is read any more.                                              *)
(***************************************************************************)
C9_OnlyQuitKeysEndLoop ==
    [][LET read     == pc = "read" /\ res' # "Err"
           quit_key == event'.kind = "Key" /\ event'.code \in {"q", "Esc"}
       IN  /\ read =>
                 IF quit_key
                 THEN /\ app'.v.should_quit
                      /\ res' = "Ok"
                      /\ pc' = "disable_raw_mode"
                 ELSE /\ ~app'.v.should_quit
                      /\ app'.v.system_info = app.v.system_info
                      /\ snapshot' = snapshot
                      /\ pc' = "draw"
           /\ (app.some /\ app.v.should_quit) =>
                 /\ pc' \notin {"draw", "read"}
                 /\ frame' = frame
                 /\ event' = event]_vars

\* A run that drew two frames or more and ended when Esc was read.
C9_Witness ==
    /\ pc = "exited"
    /\ exit_code = 0
    /\ res = "Ok"
    /\ prev_mode # "none"
    /\ event.kind = "Key"
    /\ event.code = "Esc"
    /\ app.v.should_quit

(***************************************************************************)
(* C10.  The snapshot is collected once in a run, before the first frame,  *)
(* and never changed: every frame of the loop, after any key and resize    *)
(* events, shows the system_info the one call of collect returned.         *)
(***************************************************************************)
C10_SnapshotCollectedOnce ==
    /\ collects \in {0, 1}
    /\ (app.some \/ frame.some \/ pc \in {"draw", "read"}) => collects = 1 /\ snapshot.some
    /\ app.some => app.v.system_info = snapshot.v
    /\ frame.some => frame.v.info = snapshot.v

\* A frame drawn after a resize that changed the layout, showing the
\* snapshot of the one call.
C10_Witness ==
    /\ pc = "read"
    /\ collects = 1
    /\ event.kind = "Resize"
    /\ prev_mode \notin {"none", frame.v.mode}
    /\ frame.v.info = snapshot.v

(***************************************************************************)
(* C11: the process always exits with status 0.  Whenever the process has  *)
(* ended, its exit status is 0, whichever step of the terminal boundary    *)
(* failed (enabling raw mode, entering the alternate screen, creating the  *)
(* terminal, drawing a frame, reading an event, disabling raw mode,        *)
(* leaving the alternate screen, showing the cursor), and an error that    *)
(* ended the loop was printed by main.                                     *)
(***************************************************************************)
C11_AlwaysExitsZero ==
    pc = "exited" => /\ exit_code = 0
                     /\ res = "Err" => printed

(***************************************************************************)
(* C12: an execution that acquired terminal control releases it before    *)
(* the process ends.  Whenever the process has ended, raw mode is off, the *)
(* alternate screen is left and the cursor is shown, whether the loop      *)
(* ended by a quit key or by an error of draw or read, or a setup step     *)
(* after enable_raw_mode failed.  (A run in which enable_raw_mode itself   *)
(* failed has acquired nothing and ends with all three as they were.)      *)
(***************************************************************************)
C12_ReleasesTerminal ==
    pc = "exited" => /\ ~raw_mode
                     /\ ~alt_screen
                     /\ ~cursor_hidden

\* The device name this line carries for the tool of this target, << >> when
\* it carries none: the text after Name= without the blanks around it; the
\* second and third quoted field of a VGA or 3D controller line; the text
\* between the quotes after the "_name" key.
NameOn(target, line) ==
    IF target = "windows"
    THEN IF StartsWith(line, NamePrefix)
         THEN Trim(SubSeq(line, Len(NamePrefix) + 1, Len(line)))
         ELSE << >>
    ELSE IF target = "linux"
    THEN IF (Contains(line, VgaMarker) \/ Contains(line, Marker3D))
             /\ Len(Split(line, "\"")) >= 6
         THEN Split(line, "\"")[4] \o << " " >> \o Split(line, "\"")[6]
         ELSE << >>
    ELSE IF target = "macos"
    THEN IF Contains(line, NameKey)
            /\ Contains(SubSeq(line, Find(line, NameKey) + Len(NameKey) + 1, Len(line)),
                        << "\"" >>)
         THEN SubSeq(line, Find(line, NameKey) + Len(NameKey) + 1,
                     Find(line, NameKey) + Len(NameKey)
                        + Find(SubSeq(line, Find(line, NameKey) + Len(NameKey) + 1,
                                      Len(line)), << "\"" >>))
         ELSE << >>
    ELSE << >>

\* The device names the markers of an output carry, in the order of the lines
RECURSIVE MarkedNames(_, _)
MarkedNames(target, ls) ==
    IF ls = << >> THEN << >>
    ELSE (IF NameOn(target, Head(ls)) # << >>
          THEN << Join(NameOn(target, Head(ls))) >> ELSE << >>)
            \o MarkedNames(target, Tail(ls))

(***************************************************************************)
(* C13: for each platform's GPU strategy and every outcome of the probe,   *)
(* the result of get_gpu_info is "Unknown GPU" when the process could not  *)
(* be launched or no marker of its output carries a device name, and       *)
(* otherwise the device name of the first marker that carries one; it is   *)
(* never empty, and on any other platform it is "Unknown GPU".             *)
(***************************************************************************)
C13_GpuNameOrFallback ==
    pc = "get_gpu_info_returned" =>
        /\ ret.v = IF host.gpu.launched /\ MarkedNames(os, host.gpu.stdout) # << >>
                   THEN MarkedNames(os, host.gpu.stdout)[1]
                   ELSE "Unknown GPU"
        /\ ret.v # ""
        /\ os = "other" => ret.v = "Unknown GPU"

\* The rows of interior a panel of this height has inside its border
InteriorRows(height) == SaturatingSub(height, 2)

(***************************************************************************)
(* C14: in every frame of the narrow or the wide layout the memory panel   *)
(* of the hardware region has at most 4 rows: exactly 4 when the region    *)
(* has 15 or more available rows (the fixed budget), and 25% of the        *)
(* available rows, to the row, when it has fewer.  Its interior is         *)
(* therefore below 3 rows and draw_memory_info renders its centered text   *)
(* and never the bar; a bar in a frame is the disk panel's, which then has *)
(* 5 rows or more.                                                         *)
(***************************************************************************)
C14_MemoryBarNeverDrawn ==
    (pc = "rendered" /\ OpsOf(ret.v, "draw_hardware_info", "Block") # {}) =>
        LET available == InteriorRows(AreaOf(ret.v, "draw_hardware_info", "Block").height)
            memory    == AreaOf(ret.v, "draw_memory_info", "Block").height
        IN  /\ ShownMode(ret.v) \in {"narrow", "wide"}
            /\ memory <= 4
            /\ IF available >= sections * min_section_height
               THEN memory = 4
               ELSE /\ 100 * memory - 25 * available <= 100
                    /\ 25 * available - 100 * memory <= 100
            /\ InteriorRows(memory) < 3
            /\ OpsOf(ret.v, "draw_memory_info", "Gauge") = {}
            /\ \A i \in OpsOf(ret.v, "draw_memory_info", "Paragraph") :
                  ret.v.ops[i].alignment = "Center"
            /\ \A i \in 1..Len(ret.v.ops) :
                  ret.v.ops[i].widget = "Gauge" =>
                      /\ ret.v.ops[i].fn = "draw_disk_info"
                      /\ AreaOf(ret.v, "draw_disk_info", "Block").height >= 5

=============================================================================
